---------------------------- MODULE Spec2Model ----------------------------
(***************************************************************************)
(* Model of scripts/run_ce_demo.py: the continuous-evaluation gate.        *)
(*                                                                         *)
(* Strings whose characters matter (model_id, version, evaluation_profile, *)
(* keys, file names) are sequences of one-character strings, so that       *)
(* f-string concatenation, str.endswith and sort order are computed.       *)
(* Scores and thresholds are fixed-point integers in thousandths           *)
(* (0.750 is 750).  Python dicts are functions; a dict whose iteration     *)
(* order is observed (group_scores) is a sequence of <<key, value>> pairs  *)
(* in insertion order.                                                     *)
(***************************************************************************)
EXTENDS Integers, Sequences, FiniteSets, TLC

VARIABLES
    store,      \* HISTORY_PATH: [kind: absent | blank | corrupt | json, doc]
    reports,    \* REPORTS_DIR: file name -> content
    clock,      \* the value datetime.now(UTC) returns next
    pc,         \* per invocation of main: idle | load | loop | done | crashed
    argv,       \* per invocation: the manifest paths given
    idx,        \* per invocation: position of the for loop in argv
    history,    \* per invocation: the in-memory history dict
    all_ok,     \* per invocation: main's all_ok
    rc,         \* per invocation: <<>> or <<return value of main>>
    log,        \* per invocation: calls and prints of the current run, in order
    gk_cfg,     \* apply_gatekeeper's model_cfg argument
    gk_metrics, \* apply_gatekeeper's metrics argument
    gk_result,  \* <<>> or <<what apply_gatekeeper returned>>
    latest,     \* history variable: key -> verdict of the latest evaluation performed
    kept,       \* history variable: the same, over the runs that completed
    pending,    \* history variable, per invocation: the same, over the current run
    began       \* history variable, per invocation: <<the store when main was called>>

vars == <<store, reports, clock, pc, argv, idx, history, all_ok, rc, log,
          gk_cfg, gk_metrics, gk_result, latest, kept, pending, began>>

runvars == <<store, reports, clock, pc, argv, idx, history, all_ok, rc, log>>
gkvars == <<gk_cfg, gk_metrics, gk_result>>
obsvars == <<latest, kept, pending, began>>

(***************************************************************************)
(* Bounds.                                                                 *)
(***************************************************************************)
MaxArgv == 2        \* longest manifest list given to main
MaxClock == 2       \* evaluations recorded over all runs (timestamps 0..MaxClock-1)
MaxGroups == 2      \* groups in a MetricsResult given to the gatekeeper alone
MaxConcArgv == 1    \* longest manifest list given to each of two concurrent runs

(***************************************************************************)
(* Python dict and str helpers.                                            *)
(***************************************************************************)
EmptyDict == [k \in {} |-> 0]

\* dict.get(k, default)
Get(d, k, default) == IF k \in DOMAIN d THEN d[k] ELSE default

\* d[k] = v
Put(d, k, v) == (k :> v) @@ d

\* str.endswith for a one-character suffix
EndsWith(s, c) == Len(s) > 0 /\ s[Len(s)] = c

\* code points of the characters the model's strings use
Ord(c) ==
    CASE c = "0" -> 48
      [] c = "1" -> 49
      [] c = ":" -> 58
      [] c = "_" -> 95
      [] c = "m" -> 109
      [] c = "p" -> 112

\* Python's str ordering: lexicographic by code point, a proper prefix first
RECURSIVE StrLess(_, _)
StrLess(s, t) ==
    IF t = <<>> THEN FALSE
    ELSE IF s = <<>> THEN TRUE
    ELSE IF Ord(Head(s)) # Ord(Head(t)) THEN Ord(Head(s)) < Ord(Head(t))
    ELSE StrLess(Tail(s), Tail(t))

\* sorted(keys)
RECURSIVE SortedKeys(_)
SortedKeys(S) ==
    IF S = {} THEN <<>>
    ELSE LET m == CHOOSE a \in S : \A b \in S \ {a} : StrLess(a, b)
         IN  <<m>> \o SortedKeys(S \ {m})

\* "{x:.3f}" of a score in thousandths
Fmt3(n) ==
    LET a == IF n < 0 THEN 0 - n ELSE n
    IN  [neg |-> n < 0, int |-> a \div 1000, frac |-> a % 1000]

(***************************************************************************)
(* build_key, run_deepeval_stub, apply_gatekeeper.                         *)
(***************************************************************************)
Sep == <<":", ":">>

RequiredFields == {"model_id", "version", "evaluation_profile"}

\* a manifest without a required field makes build_key raise KeyError
build_key_raises(model_cfg) == ~ (RequiredFields \subseteq DOMAIN model_cfg)

build_key(model_cfg) ==
    model_cfg["model_id"] \o Sep \o model_cfg["version"] \o Sep
        \o model_cfg["evaluation_profile"]

\* mutant: compares the status with "passed", which no entry has
has_successful_eval_wrong_status(h, key) ==
    key \in DOMAIN h /\ h[key]["status"] = "passed"

\* a wrong test: any entry for the key counts, whatever its status
has_successful_eval_any_entry(h, key) == key \in DOMAIN h

has_successful_eval(h, key) ==
    key \in DOMAIN h /\ h[key]["status"] = "pass"

run_deepeval_stub(model_cfg) ==
    LET high == EndsWith(model_cfg["version"], "0")
        overall_score == IF high THEN 800 ELSE 720
        min_group_score == IF high THEN 780 ELSE 680
    IN  [model_id |-> model_cfg["model_id"],
         version |-> model_cfg["version"],
         evaluation_profile |-> model_cfg["evaluation_profile"],
         overall_score |-> overall_score,
         group_scores |-> << <<"group_a", min_group_score>>,
                             <<"group_b", min_group_score + 20>> >>,
         raw_metrics |-> << <<"demographic_parity", 810>>,
                            <<"equal_selection_parity", 760>> >>]

\* mutant: a score equal to the threshold fails
OverallFails_le(score, min_overall) == score <= min_overall

\* the comparisons of lines 81 and 89
OverallFails(score, min_overall) == score < min_overall
GroupFails(score, min_group) == score < min_group

OverallReason(score, min_overall) ==
    [check |-> "overall_score", group |-> "", score |-> Fmt3(score),
     bound |-> "min_overall_score", min |-> Fmt3(min_overall)]

GroupReason(group, score, min_group) ==
    [check |-> "group", group |-> group, score |-> Fmt3(score),
     bound |-> "min_group_score", min |-> Fmt3(min_group)]

\* mutant: the loop breaks at the first failing group
RECURSIVE GroupLoop_break(_, _, _)
GroupLoop_break(items, min_group, acc) ==
    IF items = <<>> THEN acc
    ELSE IF Head(items)[2] < min_group
         THEN [ok |-> FALSE,
               reasons |-> Append(acc.reasons,
                                  GroupReason(Head(items)[1], Head(items)[2],
                                              min_group))]
         ELSE GroupLoop_break(Tail(items), min_group, acc)

\* the for loop of lines 88-93 over group_scores.items(), from acc = [ok, reasons]
RECURSIVE GroupLoop(_, _, _)
GroupLoop(items, min_group, acc) ==
    IF items = <<>> THEN acc
    ELSE LET group == Head(items)[1]
             score == Head(items)[2]
             next == IF GroupFails(score, min_group)
                     THEN [ok |-> FALSE,
                           reasons |-> Append(acc.reasons,
                                              GroupReason(group, score, min_group))]
                     ELSE acc
         IN  GroupLoop(Tail(items), min_group, next)

apply_gatekeeper(model_cfg, metrics) ==
    LET gate == Get(model_cfg, "gate", EmptyDict)
        min_overall == Get(gate, "min_overall_score", 0)
        min_group == Get(gate, "min_group_score", 0)
        first == IF OverallFails(metrics["overall_score"], min_overall)
                 THEN [ok |-> FALSE,
                       reasons |-> <<OverallReason(metrics["overall_score"],
                                                   min_overall)>>]
                 ELSE [ok |-> TRUE, reasons |-> <<>>]
    IN  GroupLoop(metrics["group_scores"], min_group, first)

(***************************************************************************)
(* The files the program reads and writes.                                 *)
(***************************************************************************)
GateBoth == [min_overall_score |-> 750, min_group_score |-> 700]
GateOverallOnly == [min_overall_score |-> 750]

\* MODELS_DIR as load_yaml parses it; a path outside the domain does not exist
Manifests ==
    [path \in {"models/a.yaml", "models/b.yaml", "models/b_nogate.yaml",
               "models/c.yaml", "models/bad.yaml"} |->
        CASE path = "models/a.yaml" ->
                 [model_id |-> <<"m">>, version |-> <<"0">>,
                  evaluation_profile |-> <<"1", ":", ":", "p">>,
                  gate |-> GateBoth]
          [] path = "models/b.yaml" ->
                 [model_id |-> <<"m", ":", ":", "0">>, version |-> <<"1">>,
                  evaluation_profile |-> <<"p">>, gate |-> GateBoth]
          [] path = "models/b_nogate.yaml" ->
                 [model_id |-> <<"m", ":", ":", "0">>, version |-> <<"1">>,
                  evaluation_profile |-> <<"p">>]
          [] path = "models/c.yaml" ->
                 [model_id |-> <<"m">>, version |-> <<"1">>,
                  evaluation_profile |-> <<"p">>, gate |-> GateOverallOnly]
          [] path = "models/bad.yaml" ->
                 [model_id |-> <<"m">>, version |-> <<"0">>]]

Paths == DOMAIN Manifests \cup {"models/gone.yaml"}

\* manifest_path.exists()
manifest_exists(path) == path \in DOMAIN Manifests

load_yaml(path) == Manifests[path]

\* the argument lists main is run with
ArgvLists == UNION {[1..n -> Paths] : n \in 0..MaxArgv}

\* json.loads of the store's document: an object's repeated key keeps its last value
ParseDoc(doc) ==
    [k \in {doc[n][1] : n \in DOMAIN doc} |->
        LET last == CHOOSE n \in DOMAIN doc :
                        /\ doc[n][1] = k
                        /\ \A j \in DOMAIN doc : doc[j][1] = k => j <= n
        IN  doc[last][2]]

\* mutant: a document that does not parse is taken for an empty history
load_history_tolerant(file) ==
    IF file.kind = "json"
    THEN [raised |-> FALSE, value |-> ParseDoc(file.doc)]
    ELSE [raised |-> FALSE, value |-> EmptyDict]

\* a wrong load: only an absent file gives the empty history, a blank one is
\* handed to the parser
load_history_blank_raises(file) ==
    CASE file.kind = "absent" -> [raised |-> FALSE, value |-> EmptyDict]
      [] file.kind = "blank" -> [raised |-> TRUE, value |-> EmptyDict]
      [] file.kind = "corrupt" -> [raised |-> TRUE, value |-> EmptyDict]
      [] file.kind = "json" -> [raised |-> FALSE, value |-> ParseDoc(file.doc)]

\* load_history: what it returns, or that it raised
load_history(file) ==
    CASE file.kind = "absent" -> [raised |-> FALSE, value |-> EmptyDict]
      [] file.kind = "blank" -> [raised |-> FALSE, value |-> EmptyDict]
      [] file.kind = "corrupt" -> [raised |-> TRUE, value |-> EmptyDict]
      [] file.kind = "json" -> [raised |-> FALSE, value |-> ParseDoc(file.doc)]

\* a save that is not the code's: the file is read again and h laid over it
save_history_merge(h) ==
    LET merged == h @@ (IF store.kind = "json" THEN ParseDoc(store.doc) ELSE EmptyDict)
        keys == SortedKeys(DOMAIN merged)
    IN  [kind |-> "json",
         doc |-> [n \in 1..Len(keys) |-> <<keys[n], merged[keys[n]]>>]]

\* save_history: json.dump(history, sort_keys=True) replaces the file
save_history(h) ==
    LET keys == SortedKeys(DOMAIN h)
    IN  [kind |-> "json",
         doc |-> [n \in 1..Len(keys) |-> <<keys[n], h[keys[n]]>>]]

\* write_artifacts: the two file names it returns and the files it writes
base_name(model_cfg) ==
    model_cfg["model_id"] \o <<"_">> \o model_cfg["version"] \o <<"_">>
        \o model_cfg["evaluation_profile"]

metrics_path(model_cfg) ==
    [dir |-> "reports", base |-> base_name(model_cfg), suffix |-> "_metrics.json"]

report_path(model_cfg) ==
    [dir |-> "reports", base |-> base_name(model_cfg), suffix |-> "_report.html"]

write_artifacts(dir, model_cfg, metrics, passed, reasons) ==
    Put(Put(dir, metrics_path(model_cfg), [metrics |-> metrics]),
        report_path(model_cfg),
        [model_id |-> model_cfg["model_id"],
         version |-> model_cfg["version"],
         evaluation_profile |-> model_cfg["evaluation_profile"],
         status_str |-> IF passed THEN "PASS" ELSE "FAIL",
         metrics |-> metrics,
         reasons |-> reasons])

\* a wrong entry: the status is taken the wrong way round from passed
HistoryEntry_inverted(model_cfg, passed, reasons, now) ==
    [status |-> IF passed THEN "failed_gate" ELSE "pass",
     metrics_path |-> metrics_path(model_cfg),
     report_path |-> report_path(model_cfg),
     reasons |-> reasons,
     created_at |-> now]

\* the history entry of lines 157-163
HistoryEntry(model_cfg, passed, reasons, now) ==
    [status |-> IF passed THEN "pass" ELSE "failed_gate",
     metrics_path |-> metrics_path(model_cfg),
     report_path |-> report_path(model_cfg),
     reasons |-> reasons,
     created_at |-> now]

\* mutant: only a passing verdict is recorded
update_history_pass_only(h, key, entry) ==
    IF entry["status"] = "pass" THEN Put(h, key, entry) ELSE h

\* mutant: history.setdefault(key, entry), an entry already there stays
update_history_setdefault(h, key, entry) ==
    IF key \in DOMAIN h THEN h ELSE Put(h, key, entry)

\* a wrong update: the mapping is rebuilt around the one new entry
update_history_reset(h, key, entry) == key :> entry

\* history[key] = entry
update_history(h, key, entry) == Put(h, key, entry)

\* mutant: all_ok = passed, the last manifest decides
update_all_ok_last(ok, passed) == passed

\* main's "if not passed: all_ok = False"
update_all_ok(ok, passed) == IF ~passed THEN FALSE ELSE ok

\* mutant: a manifest that does not exist fails the batch
missing_all_ok_false(ok) == FALSE

\* main's "continue" for a manifest that does not exist leaves all_ok alone
missing_all_ok(ok) == ok

\* main's return value
exit_status(ok) == IF ok THEN 0 ELSE 1

(***************************************************************************)
(* Invocations of main.                                                    *)
(***************************************************************************)
Invocations == {"run1", "run2"}
Sequential == {"run1"}

Event(op, i) == [op |-> op, i |-> i]

\* what the history variables keep of an evaluation's entry
Verdict(entry) == [status |-> entry["status"], reasons |-> entry["reasons"]]

Returned(p) == pc[p] \in {"done", "crashed"}

HereExists(p) ==
    /\ pc[p] = "loop"
    /\ idx[p] <= Len(argv[p])
    /\ manifest_exists(argv[p][idx[p]])

\* a wrong main: no early return, the empty list goes through load, loop and save
MainNoArgs_no_return(p) ==
    /\ pc[p] = "idle"
    /\ pc' = [pc EXCEPT ![p] = IF load_history(store).raised THEN "crashed" ELSE "done"]
    /\ argv' = [argv EXCEPT ![p] = <<>>]
    /\ idx' = [idx EXCEPT ![p] = 0]
    /\ history' = [history EXCEPT ![p] = load_history(store).value]
    /\ all_ok' = [all_ok EXCEPT ![p] = TRUE]
    /\ rc' = [rc EXCEPT ![p] = IF load_history(store).raised THEN <<>> ELSE <<0>>]
    /\ log' = [log EXCEPT ![p] =
                  IF load_history(store).raised
                  THEN <<Event("load_history", 0)>>
                  ELSE <<Event("load_history", 0), Event("save_history", 0)>>]
    /\ store' = IF load_history(store).raised
                THEN store ELSE save_history(load_history(store).value)
    /\ began' = [began EXCEPT ![p] = <<store>>]
    /\ UNCHANGED <<reports, clock, gkvars, latest, kept, pending>>

\* main called with no manifest paths: prints and returns 0
MainNoArgs(p) ==
    /\ pc[p] = "idle"
    /\ pc' = [pc EXCEPT ![p] = "done"]
    /\ argv' = [argv EXCEPT ![p] = <<>>]
    /\ idx' = [idx EXCEPT ![p] = 0]
    /\ history' = [history EXCEPT ![p] = EmptyDict]
    /\ all_ok' = [all_ok EXCEPT ![p] = TRUE]
    /\ rc' = [rc EXCEPT ![p] = <<0>>]
    /\ log' = [log EXCEPT ![p] = <<Event("print_nothing_to_do", 0)>>]
    /\ began' = [began EXCEPT ![p] = <<store>>]
    /\ UNCHANGED <<store, reports, clock, gkvars, latest, kept, pending>>

\* main called with manifest paths: about to load the history
MainStart(p, args) ==
    /\ pc[p] = "idle"
    /\ args # <<>>
    /\ pc' = [pc EXCEPT ![p] = "load"]
    /\ argv' = [argv EXCEPT ![p] = args]
    /\ idx' = [idx EXCEPT ![p] = 0]
    /\ history' = [history EXCEPT ![p] = EmptyDict]
    /\ all_ok' = [all_ok EXCEPT ![p] = TRUE]
    /\ rc' = [rc EXCEPT ![p] = <<>>]
    /\ log' = [log EXCEPT ![p] = <<>>]
    /\ began' = [began EXCEPT ![p] = <<store>>]
    /\ UNCHANGED <<store, reports, clock, gkvars, latest, kept, pending>>

\* history = load_history(); all_ok = True
LoadHistory(p) ==
    /\ pc[p] = "load"
    /\ LET got == load_history(store)
       IN  IF got.raised
           THEN /\ pc' = [pc EXCEPT ![p] = "crashed"]
                /\ UNCHANGED <<history, idx>>
           ELSE /\ pc' = [pc EXCEPT ![p] = "loop"]
                /\ history' = [history EXCEPT ![p] = got.value]
                /\ idx' = [idx EXCEPT ![p] = 1]
    /\ log' = [log EXCEPT ![p] = Append(@, Event("load_history", 0))]
    /\ UNCHANGED <<store, reports, clock, argv, all_ok, rc, gkvars, obsvars>>

\* loop body, manifest does not exist: warning, continue
SkipMissing(p) ==
    /\ pc[p] = "loop"
    /\ idx[p] <= Len(argv[p])
    /\ ~ manifest_exists(argv[p][idx[p]])
    /\ log' = [log EXCEPT ![p] = Append(@, Event("warning_missing", idx[p]))]
    /\ all_ok' = [all_ok EXCEPT ![p] = missing_all_ok(@)]
    /\ idx' = [idx EXCEPT ![p] = @ + 1]
    /\ UNCHANGED <<store, reports, clock, pc, argv, history, rc, gkvars, obsvars>>

\* a wrong loop body: the KeyError is caught, the manifest counts as failed and
\* the loop goes on
EvaluateMalformed_continue(p) ==
    /\ HereExists(p)
    /\ build_key_raises(load_yaml(argv[p][idx[p]]))
    /\ log' = [log EXCEPT ![p] = Append(@, Event("load_yaml", idx[p]))]
    /\ all_ok' = [all_ok EXCEPT ![p] = FALSE]
    /\ idx' = [idx EXCEPT ![p] = @ + 1]
    /\ UNCHANGED <<store, reports, clock, pc, argv, history, rc, gkvars, obsvars>>

\* loop body, evaluate_model_manifest raises KeyError in build_key
EvaluateMalformed(p) ==
    /\ HereExists(p)
    /\ build_key_raises(load_yaml(argv[p][idx[p]]))
    /\ pc' = [pc EXCEPT ![p] = "crashed"]
    /\ log' = [log EXCEPT ![p] = Append(@, Event("load_yaml", idx[p]))]
    /\ UNCHANGED <<store, reports, clock, argv, idx, history, all_ok, rc, gkvars, obsvars>>

\* loop body, evaluate_model_manifest returns at line 145
EvaluateSkip(p) ==
    /\ HereExists(p)
    /\ LET model_cfg == load_yaml(argv[p][idx[p]])
       IN  /\ ~ build_key_raises(model_cfg)
           /\ has_successful_eval(history[p], build_key(model_cfg))
    /\ log' = [log EXCEPT ![p] = @ \o <<Event("load_yaml", idx[p]),
                                        Event("print_skipping", idx[p])>>]
    /\ all_ok' = [all_ok EXCEPT ![p] = update_all_ok(@, TRUE)]
    /\ idx' = [idx EXCEPT ![p] = @ + 1]
    /\ UNCHANGED <<store, reports, clock, pc, argv, history, rc, gkvars, obsvars>>

\* loop body, evaluate_model_manifest runs to line 172
EvaluateRun(p) ==
    /\ HereExists(p)
    /\ clock < MaxClock
    /\ LET i == idx[p]
           model_cfg == load_yaml(argv[p][i])
       IN  /\ ~ build_key_raises(model_cfg)
           /\ ~ has_successful_eval(history[p], build_key(model_cfg))
           /\ LET key == build_key(model_cfg)
                  metrics == run_deepeval_stub(model_cfg)
                  verdict == apply_gatekeeper(model_cfg, metrics)
                  entry == HistoryEntry(model_cfg, verdict.ok, verdict.reasons, clock)
              IN  /\ reports' = write_artifacts(reports, model_cfg, metrics,
                                                verdict.ok, verdict.reasons)
                  /\ history' = [history EXCEPT ![p] = update_history(@, key, entry)]
                  /\ all_ok' = [all_ok EXCEPT ![p] = update_all_ok(@, verdict.ok)]
                  /\ latest' = Put(latest, key, Verdict(entry))
                  /\ pending' = [pending EXCEPT ![p] = Put(@, key, Verdict(entry))]
                  /\ log' = [log EXCEPT ![p] = @ \o
                               <<Event("load_yaml", i),
                                 Event("run_deepeval_stub", i),
                                 Event("apply_gatekeeper", i),
                                 Event("write_artifacts", i),
                                 Event(IF verdict.ok THEN "print_pass"
                                                     ELSE "print_fail", i)>>]
    /\ clock' = clock + 1
    /\ idx' = [idx EXCEPT ![p] = @ + 1]
    /\ UNCHANGED <<store, pc, argv, rc, gkvars, kept, began>>

\* loop body, write_artifacts raises (REPORTS_DIR cannot be written)
EvaluateWriteFails(p) ==
    /\ HereExists(p)
    /\ LET model_cfg == load_yaml(argv[p][idx[p]])
       IN  /\ ~ build_key_raises(model_cfg)
           /\ ~ has_successful_eval(history[p], build_key(model_cfg))
    /\ pc' = [pc EXCEPT ![p] = "crashed"]
    /\ log' = [log EXCEPT ![p] = @ \o <<Event("load_yaml", idx[p]),
                                        Event("run_deepeval_stub", idx[p]),
                                        Event("apply_gatekeeper", idx[p]),
                                        Event("write_artifacts_raised", idx[p])>>]
    /\ UNCHANGED <<store, reports, clock, argv, idx, history, all_ok, rc, gkvars, obsvars>>

\* a wrong return: the history is saved only when every manifest passed
SaveAndReturn_if_ok(p) ==
    /\ pc[p] = "loop"
    /\ idx[p] > Len(argv[p])
    /\ store' = IF all_ok[p] THEN save_history(history[p]) ELSE store
    /\ rc' = [rc EXCEPT ![p] = <<exit_status(all_ok[p])>>]
    /\ pc' = [pc EXCEPT ![p] = "done"]
    /\ log' = [log EXCEPT ![p] = IF all_ok[p] THEN Append(@, Event("save_history", 0)) ELSE @]
    /\ kept' = pending[p] @@ kept
    /\ UNCHANGED <<reports, clock, argv, idx, history, all_ok, gkvars, latest, pending, began>>

\* after the loop: save_history(history); return 0 if all_ok else 1
SaveAndReturn(p) ==
    /\ pc[p] = "loop"
    /\ idx[p] > Len(argv[p])
    /\ store' = save_history(history[p])
    /\ rc' = [rc EXCEPT ![p] = <<exit_status(all_ok[p])>>]
    /\ pc' = [pc EXCEPT ![p] = "done"]
    /\ log' = [log EXCEPT ![p] = Append(@, Event("save_history", 0))]
    /\ kept' = pending[p] @@ kept
    /\ UNCHANGED <<reports, clock, argv, idx, history, all_ok, gkvars, latest, pending, began>>

\* sys.exit: the process ends, main's locals are gone
Exit(p) ==
    /\ Returned(p)
    /\ pc' = [pc EXCEPT ![p] = "idle"]
    /\ argv' = [argv EXCEPT ![p] = <<>>]
    /\ idx' = [idx EXCEPT ![p] = 0]
    /\ history' = [history EXCEPT ![p] = EmptyDict]
    /\ all_ok' = [all_ok EXCEPT ![p] = TRUE]
    /\ rc' = [rc EXCEPT ![p] = <<>>]
    /\ log' = [log EXCEPT ![p] = <<>>]
    /\ pending' = [pending EXCEPT ![p] = EmptyDict]
    /\ began' = [began EXCEPT ![p] = <<>>]
    /\ UNCHANGED <<store, reports, clock, gkvars, latest, kept>>

Step(p) ==
    \/ MainNoArgs(p)
    \/ \E args \in ArgvLists : MainStart(p, args)
    \/ LoadHistory(p)
    \/ SkipMissing(p)
    \/ EvaluateMalformed(p)
    \/ EvaluateSkip(p)
    \/ EvaluateRun(p)
    \/ EvaluateWriteFails(p)
    \/ SaveAndReturn(p)
    \/ Exit(p)

\* the store before the first run: not there, empty, unparsable, or an empty object
InitStores ==
    {[kind |-> k, doc |-> <<>>] : k \in {"absent", "blank", "corrupt", "json"}}

InitRun ==
    /\ store \in InitStores
    /\ reports = EmptyDict
    /\ clock = 0
    /\ pc = [p \in Invocations |-> "idle"]
    /\ argv = [p \in Invocations |-> <<>>]
    /\ idx = [p \in Invocations |-> 0]
    /\ history = [p \in Invocations |-> EmptyDict]
    /\ all_ok = [p \in Invocations |-> TRUE]
    /\ rc = [p \in Invocations |-> <<>>]
    /\ log = [p \in Invocations |-> <<>>]
    /\ latest = EmptyDict
    /\ kept = EmptyDict
    /\ pending = [p \in Invocations |-> EmptyDict]
    /\ began = [p \in Invocations |-> <<>>]

Init ==
    /\ InitRun
    /\ gk_cfg = EmptyDict
    /\ gk_metrics = EmptyDict
    /\ gk_result = <<>>

Next == \E p \in Sequential : Step(p)

\* runs of main one after another, a single writer of the store
Spec == Init /\ [][Next]_vars

\* the argument lists of the concurrent runs
ConcArgvLists == UNION {[1..n -> Paths] : n \in 0..MaxConcArgv}

\* two invocations of main at once, each run once, on the same store and reports
ConcStep(p) ==
    \/ MainNoArgs(p)
    \/ \E args \in ConcArgvLists : MainStart(p, args)
    \/ LoadHistory(p)
    \/ SkipMissing(p)
    \/ EvaluateMalformed(p)
    \/ EvaluateSkip(p)
    \/ EvaluateRun(p)
    \/ EvaluateWriteFails(p)
    \/ SaveAndReturn(p)

ConcNext == \E p \in Invocations : ConcStep(p)

ConcSpec == Init /\ [][ConcNext]_vars

(***************************************************************************)
(* apply_gatekeeper on its own: any descriptor, any metrics.               *)
(***************************************************************************)
GkScores == {-1, 0, 699, 700, 701}
GkThresholds == {0, 700}

GroupNames == <<"group_a", "group_b", "group_c", "group_d">>
GkGroups == {GroupNames[n] : n \in 1..MaxGroups}

\* the gate dicts: each option given or left out
GkGates ==
    UNION {[opts -> GkThresholds] :
               opts \in SUBSET {"min_overall_score", "min_group_score"}}

GkDescriptor ==
    [model_id |-> <<"m">>, version |-> <<"0">>, evaluation_profile |-> <<"p">>]

\* descriptors without a gate and with each gate
GkCfgs == {GkDescriptor} \cup {Put(GkDescriptor, "gate", g) : g \in GkGates}

\* group_scores dicts in every insertion order
GkGroupScores ==
    UNION {{items \in [1..n -> GkGroups \X GkScores] :
                \A a, b \in 1..n : a # b => items[a][1] # items[b][1]} :
           n \in 0..MaxGroups}

GkMetrics ==
    {[overall_score |-> o, group_scores |-> gs] :
         o \in GkScores, gs \in GkGroupScores}

GkInit ==
    /\ store = [kind |-> "absent", doc |-> <<>>]
    /\ reports = EmptyDict
    /\ clock = 0
    /\ pc = [p \in Invocations |-> "idle"]
    /\ argv = [p \in Invocations |-> <<>>]
    /\ idx = [p \in Invocations |-> 0]
    /\ history = [p \in Invocations |-> EmptyDict]
    /\ all_ok = [p \in Invocations |-> TRUE]
    /\ rc = [p \in Invocations |-> <<>>]
    /\ log = [p \in Invocations |-> <<>>]
    /\ latest = EmptyDict
    /\ kept = EmptyDict
    /\ pending = [p \in Invocations |-> EmptyDict]
    /\ began = [p \in Invocations |-> <<>>]
    /\ gk_cfg \in GkCfgs
    /\ gk_metrics \in GkMetrics
    /\ gk_result = <<>>

\* passed, reasons = apply_gatekeeper(model_cfg, metrics)
GkApply ==
    /\ gk_result = <<>>
    /\ gk_result' = <<apply_gatekeeper(gk_cfg, gk_metrics)>>
    /\ UNCHANGED <<gk_cfg, gk_metrics, runvars, obsvars>>

GkNext == GkApply

GateSpec == GkInit /\ [][GkNext]_vars

(***************************************************************************)
(* Vocabulary of the properties.                                           *)
(***************************************************************************)
InLog(p, op, i) == \E n \in DOMAIN log[p] : log[p][n] = Event(op, i)

\* the manifest at position i of p's batch
Cfg(p, i) == load_yaml(argv[p][i])

WellFormedAt(p, i) ==
    manifest_exists(argv[p][i]) /\ RequiredFields \subseteq DOMAIN Cfg(p, i)

Triple(model_cfg) ==
    <<model_cfg["model_id"], model_cfg["version"], model_cfg["evaluation_profile"]>>

\* p took a step of its run
Stepped(p) == <<pc[p], idx[p], log[p]>>' # <<pc[p], idx[p], log[p]>>

\* p's run has loaded the history
HoldsHistory(p) == pc[p] = "loop" \/ (pc[p] = "done" /\ argv[p] # <<>>)

\* the persisted history, when the store holds a document
Persisted == IF store.kind = "json" THEN ParseDoc(store.doc) ELSE EmptyDict

\* the thresholds a descriptor sets, 0 where it sets none
MinOverall(model_cfg) ==
    IF "gate" \in DOMAIN model_cfg /\ "min_overall_score" \in DOMAIN model_cfg["gate"]
    THEN model_cfg["gate"]["min_overall_score"] ELSE 0

MinGroup(model_cfg) ==
    IF "gate" \in DOMAIN model_cfg /\ "min_group_score" \in DOMAIN model_cfg["gate"]
    THEN model_cfg["gate"]["min_group_score"] ELSE 0

(***************************************************************************)
(* C1.  Idempotent skip: when the manifest being processed has a key whose *)
(* history entry has status "pass", processing it calls neither the        *)
(* Metrics Provider nor the Artifact Writer (the log gains only the        *)
(* manifest load and the skip notice, no report file changes), leaves the  *)
(* history identical in every field, and counts the manifest as passed     *)
(* (all_ok is not lowered, the run goes on to the next manifest).          *)
(***************************************************************************)
C1_IdempotentSkip ==
    [][\A p \in Invocations :
          ( /\ pc[p] = "loop"
            /\ idx[p] <= Len(argv[p])
            /\ WellFormedAt(p, idx[p])
            /\ LET key == build_key(Cfg(p, idx[p]))
               IN  key \in DOMAIN history[p] /\ history[p][key]["status"] = "pass"
            /\ Stepped(p) )
          => /\ log'[p] = log[p] \o <<Event("load_yaml", idx[p]),
                                      Event("print_skipping", idx[p])>>
             /\ history'[p] = history[p]
             /\ reports' = reports
             /\ all_ok'[p] = all_ok[p]
             /\ pc'[p] = "loop"
             /\ idx'[p] = idx[p] + 1]_vars

\* a run skipped a manifest whose pass was loaded from the store: the entry in
\* memory is the persisted one, created_at included
C1_Witness ==
    \E p \in Invocations : \E i \in 1..Len(argv[p]) :
        /\ pc[p] = "loop"
        /\ InLog(p, "print_skipping", i)
        /\ ~ \E j \in 1..Len(argv[p]) : InLog(p, "apply_gatekeeper", j)
        /\ LET key == build_key(Cfg(p, i))
           IN  /\ key \in DOMAIN Persisted
               /\ Persisted[key]["status"] = "pass"
               /\ history[p][key] = Persisted[key]

(***************************************************************************)
(* C2.  Batch exit status: a run of main that completes returns 0 iff      *)
(* every manifest that exists was skipped as already passed or newly       *)
(* passed the gate, and returns 1 iff some manifest of the run got a       *)
(* failed gate verdict; manifests that do not exist play no part.          *)
(***************************************************************************)
C2_ExitStatus ==
    \A p \in Invocations :
        pc[p] = "done" =>
            /\ rc[p] \in {<<0>>, <<1>>}
            /\ rc[p] = <<0>> <=>
                   \A i \in 1..Len(argv[p]) :
                       manifest_exists(argv[p][i]) =>
                           \/ InLog(p, "print_skipping", i)
                           \/ InLog(p, "print_pass", i)
            /\ rc[p] = <<1>> <=>
                   \E i \in 1..Len(argv[p]) : InLog(p, "print_fail", i)

\* a failed manifest followed by a passing one: the run still returns 1
C2_Witness ==
    \E p \in Invocations :
        /\ pc[p] = "done"
        /\ rc[p] = <<1>>
        /\ Len(argv[p]) = 2
        /\ InLog(p, "print_fail", 1)
        /\ InLog(p, "print_pass", 2)

(***************************************************************************)
(* C3.  No short-circuit on gate failure: in a completed run in which some *)
(* manifest failed the gate, every manifest of the batch was processed, in *)
(* input order (a missing one by its warning), the persisted history has   *)
(* an entry for the key of every manifest of the batch that exists, and    *)
(* the run reports failure.                                                *)
(***************************************************************************)
C3_NoShortCircuit ==
    \A p \in Invocations :
        ( /\ pc[p] = "done"
          /\ \E i \in 1..Len(argv[p]) : InLog(p, "print_fail", i) )
        => /\ rc[p] = <<1>>
           /\ \A i \in 1..Len(argv[p]) :
                  IF manifest_exists(argv[p][i])
                  THEN /\ InLog(p, "load_yaml", i)
                       /\ InLog(p, "print_skipping", i) \/ InLog(p, "write_artifacts", i)
                       /\ build_key(Cfg(p, i)) \in DOMAIN Persisted
                  ELSE InLog(p, "warning_missing", i)
           /\ \A m, n \in DOMAIN log[p] : m < n => log[p][m].i <= log[p][n].i
                                                  \/ log[p][n].i = 0

\* the first manifest failed the gate and the second was still evaluated
C3_Witness ==
    \E p \in Invocations :
        /\ pc[p] = "done"
        /\ Len(argv[p]) = 2
        /\ InLog(p, "print_fail", 1)
        /\ InLog(p, "write_artifacts", 2)
        /\ build_key(Cfg(p, 1)) # build_key(Cfg(p, 2))

(***************************************************************************)
(* C4.  History replace semantics, as amended: the history a run holds has *)
(* an entry exactly for the keys evaluated in this run or in an earlier    *)
(* run that completed, each with the status and reasons of the most recent *)
(* such evaluation of its key; the persisted document never holds two      *)
(* entries for one key and agrees in the same way with the evaluations of  *)
(* the runs that completed.                                                *)
(***************************************************************************)
SameVerdicts(h, verdicts) ==
    /\ DOMAIN h = DOMAIN verdicts
    /\ \A key \in DOMAIN h : Verdict(h[key]) = verdicts[key]

C4_HistoryReplace ==
    /\ \A m, n \in DOMAIN store.doc : store.doc[m][1] = store.doc[n][1] => m = n
    /\ SameVerdicts(Persisted, kept)
    /\ \A p \in Sequential :
           HoldsHistory(p) => SameVerdicts(history[p], pending[p] @@ kept)

\* a key persisted as failed_gate by an earlier run has just been evaluated
\* again and passed
C4_Witness ==
    \E p \in Sequential : \E i \in 1..Len(argv[p]) :
        /\ pc[p] = "loop"
        /\ InLog(p, "print_pass", i)
        /\ LET key == build_key(Cfg(p, i))
           IN  /\ key \in DOMAIN Persisted
               /\ Persisted[key]["status"] = "failed_gate"
               /\ Persisted[key]["reasons"] # <<>>
               /\ kept[key]["status"] = "failed_gate"
               /\ history[p][key]["status"] = "pass"
               /\ history[p][key]["reasons"] = <<>>

(***************************************************************************)
(* C4 as first stated: the history a run holds has, for every key ever     *)
(* evaluated, the status and reasons of the most recent evaluation         *)
(* performed for it, whichever run performed it.                           *)
(***************************************************************************)
C4_LatestOfAnyRun ==
    \A p \in Sequential :
        HoldsHistory(p) =>
            \A key \in DOMAIN latest :
                /\ key \in DOMAIN history[p]
                /\ Verdict(history[p][key]) = latest[key]

(***************************************************************************)
(* C5.  Gate decision with threshold boundary: apply_gatekeeper passes iff *)
(* the overall score is at least min_overall_score and every group score   *)
(* is at least min_group_score, the thresholds being 0 where the           *)
(* descriptor has no gate or the gate leaves the option out; a score equal *)
(* to its threshold passes and no group at all never fails.                *)
(***************************************************************************)
C5_GateDecision ==
    gk_result # <<>> =>
        LET gs == gk_metrics["group_scores"]
        IN  gk_result[1].ok <=>
                /\ gk_metrics["overall_score"] >= MinOverall(gk_cfg)
                /\ \A n \in DOMAIN gs : gs[n][2] >= MinGroup(gk_cfg)

\* the overall score and a group score sit exactly on non-zero thresholds, and
\* the verdict is a pass
C5_Witness ==
    /\ gk_result # <<>>
    /\ gk_result[1].ok
    /\ MinOverall(gk_cfg) = 700
    /\ gk_metrics["overall_score"] = 700
    /\ MinGroup(gk_cfg) = 700
    /\ \E n \in DOMAIN gk_metrics["group_scores"] :
           gk_metrics["group_scores"][n][2] = 700

(***************************************************************************)
(* C6.  Verdict well-formedness: the reasons apply_gatekeeper returns are  *)
(* empty iff passed is true; otherwise there is exactly one reason per     *)
(* failed check, one for the overall score if it is below its threshold    *)
(* and one for each group below min_group_score, the overall one first.    *)
(***************************************************************************)
C6_VerdictWellFormed ==
    gk_result # <<>> =>
        LET r == gk_result[1]
            gs == gk_metrics["group_scores"]
            overall_low == gk_metrics["overall_score"] < MinOverall(gk_cfg)
            low == {n \in DOMAIN gs : gs[n][2] < MinGroup(gk_cfg)}
            first == IF overall_low THEN 1 ELSE 0
        IN  /\ r.reasons = <<>> <=> r.ok
            /\ Len(r.reasons) = first + Cardinality(low)
            /\ overall_low => r.reasons[1].check = "overall_score"
            /\ \A n \in DOMAIN r.reasons : n > first => r.reasons[n].check = "group"
            /\ \A g \in low :
                   Cardinality({n \in DOMAIN r.reasons :
                                   /\ r.reasons[n].check = "group"
                                   /\ r.reasons[n].group = gs[g][1]}) = 1

\* the overall score and two groups fail: three reasons, the overall one first
C6_Witness ==
    /\ gk_result # <<>>
    /\ ~ gk_result[1].ok
    /\ Len(gk_result[1].reasons) = 3
    /\ gk_result[1].reasons[1].check = "overall_score"
    /\ gk_result[1].reasons[2].check = "group"

(***************************************************************************)
(* C7.  Determinism of gate reasons: two MetricsResults that are equal as  *)
(* data (same overall score, same group -> score mapping, whatever the     *)
(* insertion order of the groups) get the same reasons in the same order.  *)
(***************************************************************************)
C7_ReasonsOrderIndependent ==
    gk_result # <<>> =>
        \A items \in GkGroupScores :
            {items[n] : n \in DOMAIN items}
                = {gk_metrics["group_scores"][n] : n \in DOMAIN gk_metrics["group_scores"]}
            => apply_gatekeeper(gk_cfg,
                                [overall_score |-> gk_metrics["overall_score"],
                                 group_scores |-> items]).reasons
                   = gk_result[1].reasons

(***************************************************************************)
(* C8.  Key injectivity: two descriptors whose (model_id, version,         *)
(* evaluation_profile) triples differ have different keys, so a manifest   *)
(* is never skipped on account of a pass earned by a manifest with another *)
(* triple.                                                                 *)
(***************************************************************************)
C8_KeyInjective ==
    \A p \in Invocations : \A i, j \in 1..Len(argv[p]) :
        (WellFormedAt(p, i) /\ WellFormedAt(p, j)
            /\ Triple(Cfg(p, i)) # Triple(Cfg(p, j)))
        => /\ build_key(Cfg(p, i)) # build_key(Cfg(p, j))
           /\ ~ (i < j /\ InLog(p, "print_pass", i) /\ InLog(p, "print_skipping", j)
                       /\ build_key(Cfg(p, i)) = build_key(Cfg(p, j)))

(***************************************************************************)
(* C9.  Missing manifest is a non-fatal skip: for a manifest path that     *)
(* does not exist, main only prints the warning: no parser, Metrics        *)
(* Provider, Gatekeeper or Artifact Writer call, the history in memory     *)
(* unchanged, all_ok not lowered, and the loop moves to the next manifest. *)
(***************************************************************************)
C9_MissingManifest ==
    [][\A p \in Invocations :
          ( /\ pc[p] = "loop"
            /\ idx[p] <= Len(argv[p])
            /\ ~ manifest_exists(argv[p][idx[p]])
            /\ Stepped(p) )
          => /\ log'[p] = Append(log[p], Event("warning_missing", idx[p]))
             /\ history'[p] = history[p]
             /\ all_ok'[p] = all_ok[p]
             /\ reports' = reports
             /\ store' = store
             /\ pc'[p] = "loop"
             /\ idx'[p] = idx[p] + 1]_vars

\* a batch went past a missing manifest and passed the next one: the completed
\* run returns 0
C9_Witness ==
    \E p \in Invocations :
        /\ pc[p] = "done"
        /\ Len(argv[p]) = 2
        /\ InLog(p, "warning_missing", 1)
        /\ InLog(p, "print_pass", 2)
        /\ rc[p] = <<0>>

(***************************************************************************)
(* C10.  Corrupt history store is fatal and never overwritten: while the   *)
(* store holds content that does not parse, a run with manifests aborts in *)
(* load_history, before any manifest is processed; nothing is evaluated,   *)
(* no artifact is written, save_history is not called and the store keeps  *)
(* its content; the run never goes on as if the history were empty.        *)
(***************************************************************************)
C10_CorruptStoreFatal ==
    [][store.kind = "corrupt" =>
          /\ store' = store
          /\ reports' = reports
          /\ \A p \in Invocations :
                 /\ pc'[p] # "loop"
                 /\ (pc[p] = "load" /\ Stepped(p)) =>
                        /\ pc'[p] = "crashed"
                        /\ log'[p] = <<Event("load_history", 0)>>
                        /\ rc'[p] = <<>>]_vars

\* a run given manifests has aborted on the corrupt store
C10_Witness ==
    \E p \in Invocations :
        /\ store.kind = "corrupt"
        /\ pc[p] = "crashed"
        /\ argv[p] # <<>>
        /\ log[p] = <<Event("load_history", 0)>>

\* the history in the store as it was when p's run began
BeganWith(p) ==
    IF began[p][1].kind = "json" THEN ParseDoc(began[p][1].doc) ELSE EmptyDict

\* the keys p's run has evaluated and recorded so far
WrittenKeys(p) ==
    {build_key(Cfg(p, i)) : i \in {j \in 1..Len(argv[p]) :
        InLog(p, "print_pass", j) \/ InLog(p, "print_fail", j)}}

(***************************************************************************)
(* C11.  Save preserves untouched entries: when a run given manifests has  *)
(* completed, the persisted history is the history that was in the store   *)
(* when the run began, overridden by the entries the run wrote: a key the  *)
(* run evaluated holds the entry the run built for it, every other key     *)
(* holds its earlier entry unchanged, and no earlier key is gone.          *)
(***************************************************************************)
C11_SavePreservesUntouched ==
    \A p \in Sequential :
        (pc[p] = "done" /\ argv[p] # <<>>) =>
            /\ store.kind = "json"
            /\ DOMAIN Persisted = DOMAIN BeganWith(p) \cup WrittenKeys(p)
            /\ \A key \in DOMAIN Persisted :
                   IF key \in WrittenKeys(p)
                   THEN /\ Persisted[key] = history[p][key]
                        /\ Verdict(Persisted[key]) = pending[p][key]
                   ELSE Persisted[key] = BeganWith(p)[key]

\* a completed run evaluated one key and saved it beside the entry an earlier
\* run had stored under another key
C11_Witness ==
    \E p \in Sequential :
        /\ pc[p] = "done"
        /\ WrittenKeys(p) # {}
        /\ \E key \in DOMAIN BeganWith(p) :
               /\ key \notin WrittenKeys(p)
               /\ Persisted[key] = BeganWith(p)[key]
               /\ \E other \in WrittenKeys(p) :
                      Persisted[other]["created_at"] > Persisted[key]["created_at"]

\* the places in p's log of the calls of op
Calls(p, op) == {n \in DOMAIN log[p] : log[p][n].op = op}

(***************************************************************************)
(* C12.  Load-once/save-once ordering: a run given manifests reads the     *)
(* store exactly once, as its first call, before any manifest; it writes   *)
(* the store exactly once, as its last call, after the last manifest, and  *)
(* only a run that completes writes it; between the two the manifests are  *)
(* processed strictly in input order, each one once, with no read or write *)
(* of the store among them; the store changes in no step but that write.   *)
(***************************************************************************)
C12_LoadOnceSaveOnce ==
    /\ [](\A p \in Sequential :
              (argv[p] # <<>> /\ pc[p] \in {"loop", "done", "crashed"}) =>
                  /\ Calls(p, "load_history") = {1}
                  /\ Calls(p, "save_history") =
                         IF pc[p] = "done" THEN {Len(log[p])} ELSE {}
                  /\ pc[p] = "done" => idx[p] = Len(argv[p]) + 1
                  /\ \A m, n \in DOMAIN log[p] :
                         (m < n /\ log[p][m].i > 0 /\ log[p][n].i > 0)
                             => log[p][m].i <= log[p][n].i
                  /\ \A i \in 1..Len(argv[p]) :
                         Cardinality({n \in DOMAIN log[p] :
                                         log[p][n] \in {Event("load_yaml", i),
                                                        Event("warning_missing", i)}})
                             = IF i < idx[p] \/ (pc[p] = "crashed" /\ i = idx[p] /\ Len(log[p]) > 1)
                               THEN 1 ELSE 0)
    /\ [][store' # store =>
              \E p \in Sequential :
                  /\ pc[p] = "loop" /\ pc'[p] = "done"
                  /\ idx[p] = Len(argv[p]) + 1
                  /\ log'[p] = Append(log[p], Event("save_history", 0))]_vars

\* a completed run of two manifests, the second evaluated: one read first, one
\* write last, the two manifests in order between them
C12_Witness ==
    \E p \in Sequential :
        /\ pc[p] = "done"
        /\ Len(argv[p]) = 2
        /\ log[p][1] = Event("load_history", 0)
        /\ log[p][2].i = 1
        /\ InLog(p, "write_artifacts", 2)
        /\ log[p][Len(log[p])] = Event("save_history", 0)
        /\ store # began[p][1]

(***************************************************************************)
(* C13.  Absent or blank store loads as empty: a run given manifests that  *)
(* begins on a store that is absent or holds only whitespace loads the     *)
(* empty history without error (load_history does not abort the run, the   *)
(* history in memory has only the keys the run itself evaluated), and      *)
(* every existing manifest it has processed was evaluated, or was skipped  *)
(* on account of a pass recorded earlier in this same run, never on        *)
(* account of the store.                                                   *)
(***************************************************************************)
C13_AbsentOrBlankLoadsEmpty ==
    \A p \in Sequential :
        ( /\ argv[p] # <<>>
          /\ pc[p] \in {"loop", "done", "crashed"}
          /\ began[p][1].kind \in {"absent", "blank"} )
        => /\ Len(log[p]) > 1 \/ pc[p] = "loop"
           /\ DOMAIN history[p] = WrittenKeys(p)
           /\ \A i \in 1..Len(argv[p]) :
                  /\ (i < idx[p] /\ WellFormedAt(p, i)) =>
                         \/ InLog(p, "run_deepeval_stub", i)
                         \/ InLog(p, "print_skipping", i)
                  /\ InLog(p, "print_skipping", i) =>
                         \E j \in 1..(i - 1) :
                             /\ InLog(p, "print_pass", j)
                             /\ build_key(Cfg(p, j)) = build_key(Cfg(p, i))

\* a run that began on a blank store has evaluated its first manifest
C13_Witness ==
    \E p \in Sequential :
        /\ began[p] # <<>>
        /\ began[p][1].kind = "blank"
        /\ pc[p] = "loop"
        /\ idx[p] > 1
        /\ InLog(p, "run_deepeval_stub", 1)
        /\ DOMAIN history[p] = {build_key(Cfg(p, 1))}

(***************************************************************************)
(* C14.  Only "pass" short-circuits: when the manifest being processed is  *)
(* well formed and its key has no history entry, or an entry whose status  *)
(* is not "pass", processing it calls the Metrics Provider, then the       *)
(* Gatekeeper, then the Artifact Writer, in that order and with nothing    *)
(* between, and once the writer has returned history[key] is overwritten   *)
(* with the entry of this evaluation (its status and reasons those of the  *)
(* Gatekeeper's verdict, its created_at the present time); the manifest is *)
(* never skipped.  A key recorded as failed_gate is thus evaluated again   *)
(* whenever a later run reaches its manifest.  (The writer raising ends    *)
(* the run after the three calls: see C16.)                                *)
(***************************************************************************)
C14_OnlyPassShortCircuits ==
    [][\A p \in Invocations :
          ( /\ pc[p] = "loop"
            /\ idx[p] <= Len(argv[p])
            /\ WellFormedAt(p, idx[p])
            /\ LET key == build_key(Cfg(p, idx[p]))
               IN  key \in DOMAIN history[p] => history[p][key]["status"] # "pass"
            /\ Stepped(p) )
          => LET i == idx[p]
                 model_cfg == Cfg(p, i)
                 key == build_key(model_cfg)
                 verdict == apply_gatekeeper(model_cfg, run_deepeval_stub(model_cfg))
                 called == log[p] \o <<Event("load_yaml", i),
                                       Event("run_deepeval_stub", i),
                                       Event("apply_gatekeeper", i)>>
             IN  \/ /\ log'[p] = called \o
                            <<Event("write_artifacts", i),
                              Event(IF verdict.ok THEN "print_pass" ELSE "print_fail", i)>>
                    /\ DOMAIN history'[p] = DOMAIN history[p] \cup {key}
                    /\ history'[p][key] =
                           HistoryEntry(model_cfg, verdict.ok, verdict.reasons, clock)
                    /\ \A k \in DOMAIN history[p] \ {key} :
                           history'[p][k] = history[p][k]
                    /\ pc'[p] = "loop"
                    /\ idx'[p] = i + 1
                 \/ /\ log'[p] = called \o <<Event("write_artifacts_raised", i)>>
                    /\ pc'[p] = "crashed"]_vars

\* a key persisted as failed_gate by an earlier run has been evaluated again
\* and failed again: the entry in memory is the new one
C14_Witness ==
    \E p \in Sequential : \E i \in 1..Len(argv[p]) :
        /\ pc[p] = "loop"
        /\ InLog(p, "print_fail", i)
        /\ LET key == build_key(Cfg(p, i))
           IN  /\ key \in DOMAIN Persisted
               /\ Persisted[key]["status"] = "failed_gate"
               /\ history[p][key]["status"] = "failed_gate"
               /\ history[p][key]["created_at"] > Persisted[key]["created_at"]

\* the last manifest of p's run evaluated under key
LastEval(p, key) ==
    CHOOSE i \in 1..Len(argv[p]) :
        /\ InLog(p, "write_artifacts", i) /\ build_key(Cfg(p, i)) = key
        /\ \A j \in (i + 1)..Len(argv[p]) :
               ~ (InLog(p, "write_artifacts", j) /\ build_key(Cfg(p, j)) = key)

(***************************************************************************)
(* C15.  History entry consistency: in every history reached by runs that  *)
(* began on an absent or empty store, in memory or persisted, every entry  *)
(* has status "pass" or "failed_gate" and its reasons are empty iff its    *)
(* status is "pass"; the entry of a key evaluated in the present run has   *)
(* status "pass" iff the Gatekeeper's verdict of that evaluation passed,   *)
(* and its reasons are that verdict's reasons.                             *)
(***************************************************************************)
C15_EntryConsistency ==
    /\ \A h \in {Persisted} \cup {history[p] : p \in Sequential} :
           \A key \in DOMAIN h :
               /\ h[key]["status"] \in {"pass", "failed_gate"}
               /\ h[key]["reasons"] = <<>> <=> h[key]["status"] = "pass"
    /\ \A p \in Sequential :
           HoldsHistory(p) =>
               \A key \in WrittenKeys(p) :
                   LET i == LastEval(p, key)
                       verdict == apply_gatekeeper(Cfg(p, i), run_deepeval_stub(Cfg(p, i)))
                   IN  /\ history[p][key]["status"] = "pass" <=> verdict.ok
                       /\ history[p][key]["status"] = "pass" <=> InLog(p, "print_pass", i)
                       /\ history[p][key]["reasons"] = verdict.reasons

\* the persisted history holds a pass with no reasons beside a failed_gate
\* with both an overall and a group reason
C15_Witness ==
    \E k1, k2 \in DOMAIN Persisted :
        /\ Persisted[k1]["status"] = "pass"
        /\ Persisted[k1]["reasons"] = <<>>
        /\ Persisted[k2]["status"] = "failed_gate"
        /\ Len(Persisted[k2]["reasons"]) > 0

(***************************************************************************)
(* C16.  Abort mid-batch persists nothing: when processing a manifest      *)
(* raises (a descriptor lacking a field, the Artifact Writer failing) the  *)
(* run aborts there: no later manifest is processed, save_history is never *)
(* called, nothing is returned, and the store is what it was before the    *)
(* run; the verdicts of the manifests evaluated earlier in the run are not *)
(* in the persisted history, though their report files were written.       *)
(***************************************************************************)
C16_AbortPersistsNothing ==
    /\ [](\A p \in Sequential :
              pc[p] = "crashed" =>
                  /\ store = began[p][1]
                  /\ Calls(p, "save_history") = {}
                  /\ rc[p] = <<>>
                  /\ \A n \in DOMAIN log[p] : log[p][n].i <= idx[p]
                  /\ \A i \in 1..Len(argv[p]) :
                         InLog(p, "write_artifacts", i) =>
                             LET key == build_key(Cfg(p, i))
                             IN  /\ report_path(Cfg(p, i)) \in DOMAIN reports
                                 /\ key \in DOMAIN Persisted =>
                                        Persisted[key] # history[p][key])
    /\ [][\A p \in Sequential :
              /\ ( /\ pc[p] = "loop"
                   /\ idx[p] <= Len(argv[p])
                   /\ manifest_exists(argv[p][idx[p]])
                   /\ build_key_raises(Cfg(p, idx[p]))
                   /\ Stepped(p) )
                 => (pc'[p] = "crashed" /\ store' = store /\ idx'[p] = idx[p])
              /\ InLog(p, "write_artifacts_raised", idx[p])' => pc'[p] = "crashed"
              /\ pc[p] = "crashed" =>
                     /\ pc'[p] \in {"crashed", "idle"}
                     /\ store' = store]_vars

\* a run evaluated its first manifest, wrote its report, and aborted on the
\* second: the store has nothing of the first
C16_Witness ==
    \E p \in Sequential :
        /\ pc[p] = "crashed"
        /\ idx[p] = 2
        /\ InLog(p, "write_artifacts", 1)
        /\ report_path(Cfg(p, 1)) \in DOMAIN reports
        /\ build_key(Cfg(p, 1)) \in DOMAIN history[p]
        /\ build_key(Cfg(p, 1)) \notin DOMAIN Persisted

(***************************************************************************)
(* C17.  Pass is absorbing across runs: with a single writer of the store, *)
(* once the persisted history maps a key to an entry with status "pass",   *)
(* every later persisted history maps that key to the identical entry,     *)
(* created_at and artifact paths included, whatever manifests later runs   *)
(* are given.                                                              *)
(***************************************************************************)
C17_PassAbsorbing ==
    [][\A key \in DOMAIN Persisted :
           Persisted[key]["status"] = "pass" =>
               /\ key \in DOMAIN Persisted'
               /\ Persisted'[key] = Persisted[key]]_vars

\* a later run was given a manifest that would now fail the gate under a key
\* whose pass was persisted; it completed and rewrote the store with another
\* key's entry, the pass as it was
C17_Witness ==
    \E p \in Sequential : \E i \in 1..Len(argv[p]) :
        /\ pc[p] = "done"
        /\ InLog(p, "print_skipping", i)
        /\ ~ apply_gatekeeper(Cfg(p, i), run_deepeval_stub(Cfg(p, i))).ok
        /\ store # began[p][1]
        /\ LET key == build_key(Cfg(p, i))
           IN  /\ key \in DOMAIN BeganWith(p)
               /\ BeganWith(p)[key]["status"] = "pass"
               /\ Persisted[key] = BeganWith(p)[key]

\* i and j are an occurrence of a key in p's list and the next occurrence of it
NextOccurrence(p, i, j) ==
    /\ i < j
    /\ WellFormedAt(p, i) /\ WellFormedAt(p, j)
    /\ build_key(Cfg(p, i)) = build_key(Cfg(p, j))
    /\ \A m \in (i + 1)..(j - 1) :
           ~ (WellFormedAt(p, m) /\ build_key(Cfg(p, m)) = build_key(Cfg(p, i)))

(***************************************************************************)
(* C18.  Duplicate keys within one batch: when two manifests of one run's  *)
(* list have the same key, if the first was evaluated and passed then the  *)
(* second is skipped in that same run (the Metrics Provider is called once *)
(* for the key, the entry stays that of the first); if the first was       *)
(* evaluated and failed the gate then the second is evaluated again, its   *)
(* entry replaces the first's, and the run reports failure whatever the    *)
(* second's verdict.                                                       *)
(***************************************************************************)
C18_DuplicateKeys ==
    \A p \in Sequential :
        \A i, j \in 1..Len(argv[p]) :
            (NextOccurrence(p, i, j) /\ pc[p] \in {"loop", "done", "crashed"}) =>
                LET key == build_key(Cfg(p, i))
                    verdict == apply_gatekeeper(Cfg(p, j), run_deepeval_stub(Cfg(p, j)))
                IN  /\ (InLog(p, "print_pass", i) /\ j < idx[p]) =>
                           /\ InLog(p, "print_skipping", j)
                           /\ \A m \in (i + 1)..Len(argv[p]) :
                                  build_key(Cfg(p, i)) = build_key(Cfg(p, m))
                                      => ~ InLog(p, "run_deepeval_stub", m)
                           /\ LastEval(p, key) = i
                           /\ history[p][key]["status"] = "pass"
                    /\ InLog(p, "print_fail", i) =>
                           /\ all_ok[p] = FALSE
                           /\ pc[p] = "done" => rc[p] = <<1>>
                           /\ (j < idx[p] \/ (pc[p] = "crashed" /\ j = idx[p])) =>
                                  InLog(p, "run_deepeval_stub", j)
                           /\ j < idx[p] =>
                                  /\ InLog(p, "write_artifacts", j)
                                  /\ LastEval(p, key) >= j
                                  /\ LastEval(p, key) = j =>
                                         /\ history[p][key]["status"] =
                                                (IF verdict.ok THEN "pass" ELSE "failed_gate")
                                         /\ history[p][key]["reasons"] = verdict.reasons
                                         /\ history[p][key]["report_path"] = report_path(Cfg(p, j))

\* a completed run evaluated a key twice: the first manifest failed the gate,
\* the second passed and its entry is the one saved, and the run returned 1
C18_Witness ==
    \E p \in Sequential :
        /\ pc[p] = "done"
        /\ Len(argv[p]) = 2
        /\ NextOccurrence(p, 1, 2)
        /\ InLog(p, "print_fail", 1)
        /\ InLog(p, "print_pass", 2)
        /\ Persisted[build_key(Cfg(p, 2))]["status"] = "pass"
        /\ rc[p] = <<1>>

\* the other case: the first of two manifests of one key passed and the second
\* was skipped
C18_FirstPassesSecondSkipped ==
    \E p \in Sequential :
        /\ pc[p] = "done"
        /\ Len(argv[p]) = 2
        /\ NextOccurrence(p, 1, 2)
        /\ InLog(p, "print_pass", 1)
        /\ InLog(p, "print_skipping", 2)
        /\ rc[p] = <<0>>

\* p's run has completed and saved
Saved(p) == pc[p] = "done" /\ argv[p] # <<>>

(***************************************************************************)
(* C19.  Concurrent runs lose updates: when two invocations run at once,   *)
(* each loading the store, evaluating and saving, every save replaces the  *)
(* persisted history by the in-memory history of the invocation saving,    *)
(* whatever the store held, so that once runs have saved the persisted     *)
(* history is the in-memory history of the one that saved last; an entry   *)
(* the other wrote survives only if the last saver had loaded it.  (That   *)
(* an entry is in fact lost in some interleaving is C19_Witness.)          *)
(***************************************************************************)
C19_LastSaveWins ==
    /\ [][\A p \in Invocations :
              (pc[p] = "loop" /\ pc'[p] = "done") => Persisted' = history[p]]_vars
    /\ []((\E p \in Invocations : Saved(p)) =>
              \E r \in Invocations : Saved(r) /\ Persisted = history[r])

\* both invocations completed, each evaluated a key, and the entry one of them
\* wrote and saved is absent from the persisted history
C19_Witness ==
    \E p, q \in Invocations :
        /\ p # q
        /\ Saved(p) /\ Saved(q)
        /\ Persisted = history[p]
        /\ \E key \in WrittenKeys(q) :
               /\ key \in DOMAIN history[q]
               /\ key \in DOMAIN kept
               /\ key \notin DOMAIN Persisted

(***************************************************************************)
(* C20.  Empty batch is a no-op: main called with an empty manifest list   *)
(* prints its notice and returns 0 without reading or writing the store:   *)
(* load_history and save_history are not called, the store is neither      *)
(* created (an absent store stays absent) nor rewritten, no artifact is    *)
(* written, and a corrupt store is not detected by such a call.            *)
(***************************************************************************)
C20_EmptyBatchNoOp ==
    /\ [][\A p \in Invocations :
              (pc[p] = "idle" /\ pc'[p] # "idle" /\ argv'[p] = <<>>) =>
                  /\ pc'[p] = "done"
                  /\ rc'[p] = <<0>>
                  /\ log'[p] = <<Event("print_nothing_to_do", 0)>>
                  /\ store' = store
                  /\ reports' = reports]_vars
    /\ [](\A p \in Invocations :
              (pc[p] # "idle" /\ argv[p] = <<>>) =>
                  /\ pc[p] = "done"
                  /\ store = began[p][1]
                  /\ Calls(p, "load_history") = {}
                  /\ Calls(p, "save_history") = {})

\* main was called with no manifest on a corrupt store and returned 0, the
\* store as it was
C20_Witness ==
    \E p \in Invocations :
        /\ pc[p] = "done"
        /\ argv[p] = <<>>
        /\ rc[p] = <<0>>
        /\ store.kind = "corrupt"
        /\ store = began[p][1]

=============================================================================
